---- MODULE Spec2Model ----
(***************************************************************************)
(* Model of app.py: the Kabyle annexation corrector                        *)
(* (post_process_kabyle_text) and the /transcribe request handler.         *)
(*                                                                         *)
(* A text is a sequence of characters; a character is written as a short   *)
(* string.  Besides the ASCII letters, " " and "-", the model uses         *)
(*   "gh"  for the letter U+0263 (latin small gamma) of the particles,     *)
(*   "tab" for U+0009, a whitespace character other than the space,        *)
(*   "A"   for an upper-case letter whose lower case is "a",               *)
(*   "I"   for U+0130 (capital I with dot above): str.lower() maps it to   *)
(*         the two characters "i" and "dot",                               *)
(*   "dot" for U+0307 (combining dot above): neither \w nor \s,            *)
(*   "C"   for U+2102 (double-struck capital C): an upper-case letter      *)
(*         that str.lower() leaves unchanged.                              *)
(***************************************************************************)
EXTENDS Integers, Sequences, FiniteSets

\* ---------------------------------------------------------------------
\* Particle lexicon (app.py lines 38-50)
\* ---------------------------------------------------------------------
PoPro ==
  { <<"i","n","u">>, <<"i","n","e","m">>, <<"i","n","e","s">>,
      <<"n","n","e","gh">>, <<"n","t","e","x">>, <<"n","w","e","n">>,
      <<"n","w","e","n","t">>, <<"n","s","e","n">>, <<"n","s","e","n","t">>,
      <<"i","w">>, <<"i","k">>, <<"i","m">>, <<"i","s">>, <<"w">>, <<"k">>,
      <<"m">>, <<"s">>, <<"t","n","e","gh">>, <<"t","e","n","t","e","x">>,
      <<"t","s","e","n">>, <<"t","s","e","n","t">> }
SpWo ==
  { <<"d","e","g">>, <<"g","a","r">>, <<"gh","e","r">>, <<"gh","u","r">>,
      <<"f","e","l","l">>, <<"gh","e","f">>, <<"d","d","a","w">>,
      <<"n","n","i","g">>, <<"gh","i","d">>, <<"a","q","l">>,
      <<"s","gh","u","r">>, <<"s","e","n","n","i","g">>,
      <<"d","e","f","f","i","r">>, <<"s","d","a","t">> }
StPaSp ==
  { <<"i">>, <<"a","m">>, <<"a","t">>, <<"s">>, <<"n","e","gh">>,
      <<"a","gh">> }
StPa ==
  { <<"a","k">>, <<"a","s">>, <<"a","n","e","gh">>, <<"a","n","t","e","gh">>,
      <<"a","w","e","n">>, <<"a","w","e","n","t">>, <<"a","s","e","n">>,
      <<"a","s","e","n","t">>, <<"k">>, <<"m">>, <<"n","t","e","x">>,
      <<"w","e","n">>, <<"w","e","n","t">>, <<"s","e","n">>,
      <<"s","e","n","t">>, <<"a","k","e","m">>, <<"a","t","t">>,
      <<"a","k","e","n">>, <<"a","k","e","n","t">>, <<"a","t","e","n">>,
      <<"a","t","e","n","t">> }
DePa ==
  { <<"a">>, <<"a","g","i">>, <<"n","n","i">>, <<"i","h","i","n">>,
      <<"n","n","i","d","e","n">> }
DiPa ==
  { <<"i","d">>, <<"i","n">> }
FuPa ==
  { <<"a","d">>, <<"a","r","a">> }
DiObPa ==
  { <<"y","i">>, <<"k">>, <<"k","e","m">>, <<"t">>, <<"t","t">>, <<"a","y">>,
      <<"k","e","n">>, <<"k","e","n","t">>, <<"t","e","n">>,
      <<"t","e","n","t">>, <<"i","y","i">>, <<"i","k">>, <<"i","k","e","m">>,
      <<"i","t">>, <<"i","t","t">>, <<"i","k","e","n">>,
      <<"i","k","e","n","t">>, <<"i","t","e","n">>, <<"i","t","e","n","t">> }
InObPa ==
  { <<"y","i">>, <<"y","a","k">>, <<"y","a","m">>, <<"y","a","s">>,
      <<"y","a","gh">>, <<"y","a","w","e","n">>, <<"y","a","w","e","n","t">>,
      <<"y","a","s","e","n">>, <<"y","a","s","e","n","t">> }

\* ---------------------------------------------------------------------
\* Characters: the classes the regular expressions and str methods use
\* ---------------------------------------------------------------------
\* the lower-case letters that occur in the particles, plus "x" and "i"
Letters ==
  { "a", "d", "e", "f", "g", "gh", "h", "i", "k", "l", "m", "n", "q", "r",
    "s", "t", "u", "w", "x", "y" }

\* \w : alphanumeric characters and the underscore
WordChars ==
  Letters \cup { "A", "I", "C", "_" }

\* \s and str.isspace(): the same set of characters
SpaceChars ==
  { " ", "tab" }

isWord(c) ==
  c \in WordChars

isSpace(c) ==
  c \in SpaceChars

\* str.isupper() of one character
isUpper(c) ==
  c \in { "A", "I", "C" }

\* str.lower() of one character
lower_char(c) ==
  IF c = "A" THEN << "a" >>
  ELSE IF c = "I" THEN << "i", "dot" >>
  ELSE << c >>

RECURSIVE lower(_)
\* text.lower() (line 35)
lower(s) ==
  IF s = << >> THEN << >> ELSE lower_char(Head(s)) \o lower(Tail(s))

\* ---------------------------------------------------------------------
\* The alternation list (lines 53-54)
\* ---------------------------------------------------------------------
all_annexable_particles ==
  PoPro \cup SpWo \cup StPa \cup StPaSp \cup DePa \cup DiPa \cup FuPa
        \cup DiObPa \cup InObPa

\* The iteration order of a set of str depends on the process's hash seed.
HashSeeds ==
  { "fwd", "rev" }

\* an order of the characters, to enumerate a set of str in some order
CharOrder ==
  << "a", "d", "e", "f", "g", "gh", "h", "i", "k", "l", "m", "n", "q", "r",
     "s", "t", "u", "w", "x", "y" >>

Code(c) ==
  CHOOSE n \in 1..Len(CharOrder) : CharOrder[n] = c

\* q comes before p in the lexicographic order
Before(q, p) ==
  \E k \in 1..(Len(p)) :
    /\ k <= Len(q) + 1
    /\ \A j \in 1..(k - 1) : q[j] = p[j]
    /\ k = Len(q) + 1 \/ Code(q[k]) < Code(p[k])

\* the elements of S in lexicographic order
SetToList(S) ==
  [ n \in 1..Cardinality(S) |->
      CHOOSE p \in S : Cardinality({ q \in S : Before(q, p) }) = n - 1 ]

Reverse(l) ==
  [ n \in 1..Len(l) |-> l[Len(l) + 1 - n] ]

\* list(all_annexable_particles): one of the iteration orders
list(S, seed) ==
  IF seed = "fwd" THEN SetToList(S) ELSE Reverse(SetToList(S))

MaxParticleLen ==
  CHOOSE n \in 1..10 :
    /\ \E p \in all_annexable_particles : Len(p) = n
    /\ \A p \in all_annexable_particles : Len(p) <= n

RECURSIVE SortFrom(_, _)
\* the elements of l of length n, then those of length n-1, ... (stable)
SortFrom(l, n) ==
  IF n < 1 THEN << >>
  ELSE LET HasLen(p) == Len(p) = n IN SelectSeq(l, HasLen) \o SortFrom(l, n - 1)

\* sorted(l, key=len, reverse=True): stable, longest first
sorted(l) ==
  SortFrom(l, MaxParticleLen)

SortedFwd ==
  sorted(list(all_annexable_particles, "fwd"))

SortedRev ==
  sorted(list(all_annexable_particles, "rev"))

sorted_all_annexable(seed) ==
  IF seed = "fwd" THEN SortedFwd ELSE SortedRev

\* the two iteration orders without the sort of line 54
ListedFwd ==
  list(all_annexable_particles, "fwd")

ListedRev ==
  list(all_annexable_particles, "rev")

\* ---------------------------------------------------------------------
\* re.sub(annexation_pattern, r'\1-\2', text)  (lines 57-58)
\* pattern: \b(\w{2,})\s+(p1|p2|...)\b
\* ---------------------------------------------------------------------
WordAt(t, i) ==
  i >= 1 /\ i <= Len(t) /\ isWord(t[i])

\* the pattern without its two \b
Boundary_none(t, i) ==
  TRUE

\* \b between t[i-1] and t[i]
Boundary(t, i) ==
  WordAt(t, i - 1) # WordAt(t, i)

RECURSIVE WordRun(_, _)
\* the number of consecutive \w characters from position i
WordRun(t, i) ==
  IF WordAt(t, i) THEN 1 + WordRun(t, i + 1) ELSE 0

RECURSIVE SpaceRun(_, _)
\* the number of consecutive \s characters from position i
SpaceRun(t, i) ==
  IF i <= Len(t) /\ isSpace(t[i]) THEN 1 + SpaceRun(t, i + 1) ELSE 0

\* the literal p occurs in t at position j
Literal(t, j, p) ==
  /\ j + Len(p) - 1 <= Len(t)
  /\ \A n \in 1..Len(p) : t[j + n - 1] = p[n]

\* the alternatives that match at position j and end at a word boundary
Matching(t, j, alts) ==
  { n \in 1..Len(alts) :
      Literal(t, j, alts[n]) /\ Boundary(t, j + Len(alts[n])) }

\* (p1|p2|...) without the closing \b
TryAlternation_prefix(t, j, alts) ==
  LET ok == { n \in 1..Len(alts) : Literal(t, j, alts[n]) }
  IN IF ok = {} THEN 0
     ELSE j + Len(alts[CHOOSE n \in ok : \A m \in ok : n <= m])

\* (p1|p2|...)\b at position j, the alternatives tried in order: the
\* position after the first alternative that matches, 0 if none matches
TryAlternation(t, j, alts) ==
  LET ok == Matching(t, j, alts)
  IN IF ok = {} THEN 0
     ELSE j + Len(alts[CHOOSE n \in ok : \A m \in ok : n <= m])

RECURSIVE TrySpaces(_, _, _, _)
\* \s+ from position j, greedy: m whitespace characters, then fewer
TrySpaces(t, j, m, alts) ==
  IF m < 1 THEN << >>
  ELSE LET e == TryAlternation(t, j + m, alts)
       IN IF e # 0 THEN << j, j + m, e >>
          ELSE TrySpaces(t, j, m - 1, alts)

RECURSIVE TryStem_three(_, _, _, _)
\* (\w{3,}) in place of (\w{2,})
TryStem_three(t, i, k, alts) ==
  IF k < 3 THEN << >>
  ELSE LET m == TrySpaces(t, i + k, SpaceRun(t, i + k), alts)
       IN IF m # << >> THEN m ELSE TryStem_three(t, i, k - 1, alts)

RECURSIVE TryStem(_, _, _, _)
\* (\w{2,}) from position i, greedy: k word characters, then fewer
TryStem(t, i, k, alts) ==
  IF k < 2 THEN << >>
  ELSE LET m == TrySpaces(t, i + k, SpaceRun(t, i + k), alts)
       IN IF m # << >> THEN m ELSE TryStem(t, i, k - 1, alts)

\* the match of the pattern that starts at position i: the positions
\* << end of group 1, start of group 2, end of the match >>, << >> if none
MatchAt(t, i, alts) ==
  IF Boundary(t, i) THEN TryStem(t, i, WordRun(t, i), alts) ELSE << >>

RECURSIVE re_sub_annexation_group1(_, _, _)
\* every match replaced by group 1 and "-", without group 2
re_sub_annexation_group1(t, i, alts) ==
  IF i > Len(t) THEN << >>
  ELSE LET m == MatchAt(t, i, alts)
       IN IF m # << >>
          THEN SubSeq(t, i, m[1] - 1) \o << "-" >>
                 \o re_sub_annexation_group1(t, m[3], alts)
          ELSE << t[i] >> \o re_sub_annexation_group1(t, i + 1, alts)

RECURSIVE re_sub_annexation(_, _, _)
\* every non-overlapping match from position i on, left to right,
\* replaced by group 1, "-", group 2
re_sub_annexation(t, i, alts) ==
  IF i > Len(t) THEN << >>
  ELSE LET m == MatchAt(t, i, alts)
       IN IF m # << >>
          THEN SubSeq(t, i, m[1] - 1) \o << "-" >> \o SubSeq(t, m[2], m[3] - 1)
                 \o re_sub_annexation(t, m[3], alts)
          ELSE << t[i] >> \o re_sub_annexation(t, i + 1, alts)

\* ---------------------------------------------------------------------
\* Final cleanup (lines 61-62)
\* ---------------------------------------------------------------------
RECURSIVE re_sub_spaces(_, _)
\* re.sub(r'\s+', ' ', text)
re_sub_spaces(t, i) ==
  IF i > Len(t) THEN << >>
  ELSE IF isSpace(t[i])
       THEN << " " >> \o re_sub_spaces(t, i + SpaceRun(t, i))
       ELSE << t[i] >> \o re_sub_spaces(t, i + 1)

RECURSIVE lstrip(_)
lstrip(t) ==
  IF t # << >> /\ isSpace(Head(t)) THEN lstrip(Tail(t)) ELSE t

RECURSIVE rstrip(_)
rstrip(t) ==
  IF t # << >> /\ isSpace(t[Len(t)])
  THEN rstrip(SubSeq(t, 1, Len(t) - 1)) ELSE t

\* strip() that leaves the trailing whitespace
strip_leading_only(t) ==
  lstrip(t)

\* str.strip()
strip(t) ==
  rstrip(lstrip(t))

RECURSIVE HyphenRun(_, _)
HyphenRun(t, i) ==
  IF i <= Len(t) /\ t[i] = "-" THEN 1 + HyphenRun(t, i + 1) ELSE 0

RECURSIVE re_sub_hyphens_dropped(_, _)
\* re.sub(r'-+', '', text)
re_sub_hyphens_dropped(t, i) ==
  IF i > Len(t) THEN << >>
  ELSE IF t[i] = "-"
       THEN re_sub_hyphens_dropped(t, i + HyphenRun(t, i))
       ELSE << t[i] >> \o re_sub_hyphens_dropped(t, i + 1)

RECURSIVE re_sub_hyphens(_, _)
\* re.sub(r'-+', '-', text)
re_sub_hyphens(t, i) ==
  IF i > Len(t) THEN << >>
  ELSE IF t[i] = "-"
       THEN << "-" >> \o re_sub_hyphens(t, i + HyphenRun(t, i))
       ELSE << t[i] >> \o re_sub_hyphens(t, i + 1)

\* ---------------------------------------------------------------------
\* Values: a str, or a value that is not a str
\* ---------------------------------------------------------------------
\* a str value
Str(s) ==
  [ kind |-> "str", chars |-> s ]

\* None: not a str, serialisable by jsonify
NoneValue ==
  [ kind |-> "none", chars |-> << >> ]

\* an object that is not a str and that jsonify cannot serialise
ObjectValue ==
  [ kind |-> "object", chars |-> << >> ]

\* isinstance(v, str)
isinstance_str(v) ==
  v.kind = "str"

\* lines 57-62 without the lower-casing of line 35
correct_chars_cased(s, seed) ==
  re_sub_hyphens(
    strip(re_sub_spaces(
      re_sub_annexation(s, 1, sorted_all_annexable(seed)), 1)), 1)

\* lines 35-62 on a non-empty str
correct_chars(s, seed) ==
  re_sub_hyphens(
    strip(re_sub_spaces(
      re_sub_annexation(lower(s), 1, sorted_all_annexable(seed)), 1)), 1)

\* lines 35-62 on a non-empty str, with the alternatives in a given order
correct_with(s, alts) ==
  re_sub_hyphens(
    strip(re_sub_spaces(re_sub_annexation(lower(s), 1, alts), 1)), 1)

\* post_process_kabyle_text (lines 21-64), under a given hash seed
post_process_kabyle_text(text, seed) ==
  IF ~ isinstance_str(text) THEN text
  ELSE IF text.chars = << >> THEN Str(<< >>)
  ELSE Str(correct_chars(text.chars, seed))

\* ---------------------------------------------------------------------
\* Bounds of the model
\* ---------------------------------------------------------------------
\* the number of requests handled (each by its own worker)
NumReqs ==
  1

\* the number of names tempfile can choose from
MaxFiles ==
  2

\* the longest text of the exhaustive family of inputs
MaxLen ==
  4

Reqs ==
  1..NumReqs

\* the number of workers that handle requests at the same time
NumWorkers ==
  2

\* the workers; the requests of Reqs are handled by the first of them
Workers ==
  1..NumWorkers

Files ==
  1..MaxFiles

\* the exception texts (str(e)) of the failures
ExcTexts ==
  { "e1", "e2" }

\* ---------------------------------------------------------------------
\* The request, the model's result and the response
\* ---------------------------------------------------------------------
\* request.files: whether the field 'audio' is present, its filename and
\* the kind of payload it carries
Requests ==
  { [ has_audio |-> FALSE, filename |-> "", payload |-> "none" ] }
    \cup [ has_audio : { TRUE }, filename : { "", "clip.wav" },
           payload : { "audio", "empty", "garbage" } ]

NoRequest ==
  [ has_audio |-> FALSE, filename |-> "", payload |-> "unset" ]

\* pydub can decode the payload
Decodable(q) ==
  q.payload = "audio"

\* the raw texts the recognition model may return
RawTexts ==
  { << >>, << "A", "k" >>, << "a", "a", " ", "a" >> }

TextValues ==
  { Str(s) : s \in RawTexts } \cup { NoneValue, ObjectValue }

\* the place of a value that is absent
Absent ==
  [ kind |-> "absent", chars |-> << >> ]

\* what asr_model.transcribe returns: [] ; [None] ; [an object without
\* the attribute text] ; [an object with the attribute text]
TranscriptionLists ==
  { [ shape |-> sh, text |-> Absent ] : sh \in { "empty", "falsy", "no_text" } }
    \cup { [ shape |-> "hypothesis", text |-> v ] : v \in TextValues }

NoList ==
  [ shape |-> "unset", text |-> Absent ]

\* transcription_list and transcription_list[0] and
\* hasattr(transcription_list[0], 'text')   (line 115)
HasText(tl) ==
  tl.shape = "hypothesis"

\* jsonify raises TypeError on a value it cannot serialise
Serialisable(v) ==
  v.kind # "object"

NoResponse ==
  [ status |-> 0, kind |-> "none", error |-> "", transcription |-> Absent ]

\* jsonify({"error": msg}), status
ErrorResponse(status, msg) ==
  [ status |-> status, kind |-> "error", error |-> msg,
    transcription |-> Absent ]

\* jsonify({"transcription": v}) : status 200
SuccessResponse(v) ==
  [ status |-> 200, kind |-> "transcription", error |-> "",
    transcription |-> v ]

\* the framework's answer to an exception that leaves the view function:
\* the page "Internal Server Error", or in debug mode the debugger's page
\* with the traceback and the text of the exception
FrameworkError(dbg, e) ==
  [ status |-> 500, kind |-> "framework",
    error |-> IF dbg THEN e ELSE "", transcription |-> Absent ]

VARIABLES
  asr_model,            \* "loaded" or "None" (lines 68-74)
  hashseed,             \* the hash seed of the process
  debug,                \* the server runs in debug mode (line 137)
  disk,                 \* the temporary files that exist
  creator,              \* history: the request that created each file
  pc,                   \* the position of each request in transcribe()
  request,              \* request.files of each request
  tmp_name,             \* tmp_audio.name / processed_tmp.name (0: none)
  temp_input_file,      \* 0 is None
  processed_file_path,  \* 0 is None
  transcription_list,
  result,               \* the value of the return statement executed
  response,             \* the response the client receives
  log,                  \* what the request printed
  trace,                \* history: the operations the request performed
  arg,                  \* the argument of post_process_kabyle_text
  ret,                  \* its return value
  ret2,                 \* the return value of a second application
  tpc                   \* the position of the text check

pvars ==
  << disk, creator, pc, request, tmp_name, temp_input_file,
     processed_file_path, transcription_list, result, response, log, trace >>

tvars ==
  << arg, ret, ret2, tpc >>

vars ==
  << asr_model, hashseed, debug, pvars, tvars >>

\* an entry of trace: the operation and whether it returned (ok) or raised
Event(op, ok) ==
  [ op |-> op, ok |-> ok ]

\* an entry of log: the message printed and the exception text in it
Line(msg, detail) ==
  [ msg |-> msg, detail |-> detail ]

InitPipeline ==
  /\ disk = {}
  /\ creator = [ f \in Files |-> 0 ]
  /\ pc = [ r \in Workers |-> "idle" ]
  /\ request = [ r \in Workers |-> NoRequest ]
  /\ tmp_name = [ r \in Workers |-> 0 ]
  /\ temp_input_file = [ r \in Workers |-> 0 ]
  /\ processed_file_path = [ r \in Workers |-> 0 ]
  /\ transcription_list = [ r \in Workers |-> NoList ]
  /\ result = [ r \in Workers |-> NoResponse ]
  /\ response = [ r \in Workers |-> NoResponse ]
  /\ log = [ r \in Workers |-> << >> ]
  /\ trace = [ r \in Workers |-> << >> ]

InitTextIdle ==
  /\ arg = Absent
  /\ ret = Absent
  /\ ret2 = Absent
  /\ tpc = "off"

\* ---------------------------------------------------------------------
\* transcribe()  (lines 76-132), one action per statement that can fail
\* or that touches the file system
\* ---------------------------------------------------------------------
Goto(r, l) ==
  pc' = [ pc EXCEPT ![r] = l ]

Record(r, op, ok) ==
  trace' = [ trace EXCEPT ![r] = Append(@, Event(op, ok)) ]

\* a return statement inside the try block: the finally block runs next
Return(r, resp) ==
  /\ result' = [ result EXCEPT ![r] = resp ]
  /\ Goto(r, "l129")

\* a return statement before the try block: the response is sent
Respond(r, resp) ==
  /\ result' = [ result EXCEPT ![r] = resp ]
  /\ response' = [ response EXCEPT ![r] = resp ]
  /\ Goto(r, "done")

LogLine(r, msg, detail) ==
  log' = [ log EXCEPT ![r] = Append(@, Line(msg, detail)) ]

\* an exception leaves the view function and nothing answers
Escape_unanswered(r, e) ==
  /\ LogLine(r, "Exception on /transcribe [POST]", e)
  /\ Goto(r, "done")
  /\ UNCHANGED response

\* an exception leaves the view function: the framework logs it and
\* answers
Escape(r, e) ==
  /\ LogLine(r, "Exception on /transcribe [POST]", e)
  /\ response' = [ response EXCEPT ![r] = FrameworkError(debug, e) ]
  /\ Goto(r, "done")

\* except Exception as audio_e  (lines 104-106)
AudioError(r, e) ==
  /\ LogLine(r, "Error during audio processing with pydub", e)
  /\ Return(r, ErrorResponse(500,
       "Failed to process audio file. Please ensure it's a valid audio format."))

\* except Exception as asr_e  (lines 111-113)
ModelError(r, e) ==
  /\ LogLine(r, "Error during transcription with NeMo model", e)
  /\ Return(r, ErrorResponse(500, "Transcription failed due to a model error."))

\* except Exception as e  (lines 124-126)
UnhandledError(r, e) ==
  /\ LogLine(r, "An unhandled server error occurred", e)
  /\ Return(r, ErrorResponse(500, "An internal server error occurred."))

\* a POST to /transcribe arrives (lines 76-77)
Receive(r) ==
  /\ pc[r] = "idle"
  /\ \E q \in Requests : request' = [ request EXCEPT ![r] = q ]
  /\ Goto(r, "l78")
  /\ UNCHANGED << asr_model, hashseed, debug, disk, creator, tmp_name,
                  temp_input_file, processed_file_path, transcription_list,
                  result, response, log, trace, tvars >>

\* lines 78-79 without the test of asr_model
CheckModel_skipped(r) ==
  /\ pc[r] = "l78"
  /\ Goto(r, "l81")
  /\ Record(r, "check_model", TRUE)
  /\ UNCHANGED << asr_model, hashseed, debug, disk, creator, request, tmp_name,
                  temp_input_file, processed_file_path, transcription_list,
                  result, response, log, tvars >>

\* lines 78-79
CheckModel(r) ==
  /\ pc[r] = "l78"
  /\ IF asr_model = "None"
     THEN /\ Respond(r, ErrorResponse(503, "ASR model is not loaded."))
          /\ UNCHANGED trace
     ELSE /\ Goto(r, "l81")
          /\ Record(r, "check_model", TRUE)
          /\ UNCHANGED << result, response >>
  /\ UNCHANGED << asr_model, hashseed, debug, disk, creator, request, tmp_name,
                  temp_input_file, processed_file_path, transcription_list,
                  log, tvars >>

\* lines 81-82
CheckField(r) ==
  /\ pc[r] = "l81"
  /\ IF ~ request[r].has_audio
     THEN /\ Respond(r, ErrorResponse(400, "No audio file provided"))
          /\ UNCHANGED trace
     ELSE /\ Goto(r, "l84")
          /\ Record(r, "check_field", TRUE)
          /\ UNCHANGED << result, response >>
  /\ UNCHANGED << asr_model, hashseed, debug, disk, creator, request, tmp_name,
                  temp_input_file, processed_file_path, transcription_list,
                  log, tvars >>

\* lines 84-89 without the test of the filename
CheckFilename_skipped(r) ==
  /\ pc[r] = "l84"
  /\ Goto(r, "l92")
  /\ Record(r, "check_filename", TRUE)
  /\ temp_input_file' = [ temp_input_file EXCEPT ![r] = 0 ]
  /\ processed_file_path' = [ processed_file_path EXCEPT ![r] = 0 ]
  /\ UNCHANGED << asr_model, hashseed, debug, disk, creator, request, tmp_name,
                  transcription_list, result, response, log, tvars >>

\* lines 84-89
CheckFilename(r) ==
  /\ pc[r] = "l84"
  /\ IF request[r].filename = ""
     THEN /\ Respond(r, ErrorResponse(400, "No selected file"))
          /\ UNCHANGED << trace, temp_input_file, processed_file_path >>
     ELSE /\ Goto(r, "l92")
          /\ Record(r, "check_filename", TRUE)
          /\ temp_input_file' = [ temp_input_file EXCEPT ![r] = 0 ]
          /\ processed_file_path' = [ processed_file_path EXCEPT ![r] = 0 ]
          /\ UNCHANGED << result, response >>
  /\ UNCHANGED << asr_model, hashseed, debug, disk, creator, request, tmp_name,
                  transcription_list, log, tvars >>

\* NamedTemporaryFile choosing a name whether or not a file has it
NamedTemporaryFile_any(r, f) ==
  /\ disk' = disk \cup { f }
  /\ creator' = [ creator EXCEPT ![f] = r ]
  /\ tmp_name' = [ tmp_name EXCEPT ![r] = f ]

\* tempfile.NamedTemporaryFile(delete=False, suffix=".wav"): a file with a
\* name that no existing file has is created, or the call raises
NamedTemporaryFile(r, f) ==
  /\ f \notin disk
  /\ disk' = disk \cup { f }
  /\ creator' = [ creator EXCEPT ![f] = r ]
  /\ tmp_name' = [ tmp_name EXCEPT ![r] = f ]

\* line 92
CreateInput(r) ==
  /\ pc[r] = "l92"
  /\ \/ \E f \in Files :
          /\ NamedTemporaryFile(r, f)
          /\ Record(r, "create_input", TRUE)
          /\ Goto(r, "l93")
          /\ UNCHANGED << result, log >>
     \/ \E e \in ExcTexts :
          /\ Record(r, "create_input", FALSE)
          /\ UnhandledError(r, e)
          /\ UNCHANGED << disk, creator, tmp_name >>
  /\ UNCHANGED << asr_model, hashseed, debug, request, temp_input_file,
                  processed_file_path, transcription_list, response, tvars >>

\* lines 93-94
SaveUpload(r) ==
  /\ pc[r] = "l93"
  /\ \/ /\ Record(r, "save", TRUE)
        /\ temp_input_file' = [ temp_input_file EXCEPT ![r] = tmp_name[r] ]
        /\ Goto(r, "l98")
        /\ UNCHANGED << result, log >>
     \/ \E e \in ExcTexts :
          /\ Record(r, "save", FALSE)
          /\ UnhandledError(r, e)
          /\ UNCHANGED temp_input_file
  /\ UNCHANGED << asr_model, hashseed, debug, disk, creator, request, tmp_name,
                  processed_file_path, transcription_list, response, tvars >>

\* lines 98-99: AudioSegment.from_file(temp_input_file), set_frame_rate,
\* set_channels
DecodeAudio(r) ==
  /\ pc[r] = "l98"
  /\ \/ /\ temp_input_file[r] \in disk
        /\ Decodable(request[r])
        /\ Record(r, "from_file", TRUE)
        /\ Goto(r, "l101")
        /\ UNCHANGED << result, log >>
     \/ \E e \in ExcTexts :
          /\ Record(r, "from_file", FALSE)
          /\ AudioError(r, e)
  /\ UNCHANGED << asr_model, hashseed, debug, disk, creator, request, tmp_name,
                  temp_input_file, processed_file_path, transcription_list,
                  response, tvars >>

\* line 101
CreateOutput(r) ==
  /\ pc[r] = "l101"
  /\ \/ \E f \in Files :
          /\ NamedTemporaryFile(r, f)
          /\ Record(r, "create_output", TRUE)
          /\ Goto(r, "l102")
          /\ UNCHANGED << result, log >>
     \/ \E e \in ExcTexts :
          /\ Record(r, "create_output", FALSE)
          /\ AudioError(r, e)
          /\ UNCHANGED << disk, creator, tmp_name >>
  /\ UNCHANGED << asr_model, hashseed, debug, request, temp_input_file,
                  processed_file_path, transcription_list, response, tvars >>

\* lines 102-103
ExportAudio(r) ==
  /\ pc[r] = "l102"
  /\ \/ /\ Record(r, "export", TRUE)
        /\ processed_file_path' =
             [ processed_file_path EXCEPT ![r] = tmp_name[r] ]
        /\ Goto(r, "l110")
        /\ UNCHANGED << result, log >>
     \/ \E e \in ExcTexts :
          /\ Record(r, "export", FALSE)
          /\ AudioError(r, e)
          /\ UNCHANGED processed_file_path
  /\ UNCHANGED << asr_model, hashseed, debug, disk, creator, request, tmp_name,
                  temp_input_file, transcription_list, response, tvars >>

\* line 110: asr_model.transcribe([processed_file_path])
Transcribe(r) ==
  /\ pc[r] = "l110"
  /\ \/ /\ processed_file_path[r] \in disk
        /\ \E tl \in TranscriptionLists :
             transcription_list' = [ transcription_list EXCEPT ![r] = tl ]
        /\ Record(r, "transcribe", TRUE)
        /\ Goto(r, "l115")
        /\ UNCHANGED << result, log >>
     \/ \E e \in ExcTexts :
          /\ Record(r, "transcribe", FALSE)
          /\ ModelError(r, e)
          /\ UNCHANGED transcription_list
  /\ UNCHANGED << asr_model, hashseed, debug, disk, creator, request, tmp_name,
                  temp_input_file, processed_file_path, response, tvars >>

\* lines 115-122 returning the raw text in place of the corrected one
CheckResult_raw(r) ==
  /\ pc[r] = "l115"
  /\ IF HasText(transcription_list[r])
     THEN LET raw_transcription == transcription_list[r].text
          IN IF Serialisable(raw_transcription)
             THEN /\ Record(r, "post_process", TRUE)
                  /\ Return(r, SuccessResponse(raw_transcription))
                  /\ UNCHANGED log
             ELSE /\ Record(r, "jsonify", FALSE)
                  /\ UnhandledError(r, "not JSON serializable")
     ELSE /\ LogLine(r,
            "ASR model returned an empty, invalid, or unexpected transcription object.",
            "")
          /\ Record(r, "empty_result", TRUE)
          /\ Return(r, ErrorResponse(500, "Transcription failed. No text returned."))
  /\ UNCHANGED << asr_model, hashseed, debug, disk, creator, request, tmp_name,
                  temp_input_file, processed_file_path, transcription_list,
                  response, tvars >>

\* lines 115-122
CheckResult(r) ==
  /\ pc[r] = "l115"
  /\ IF HasText(transcription_list[r])
     THEN LET raw_transcription == transcription_list[r].text
              final_transcription ==
                post_process_kabyle_text(raw_transcription, hashseed)
          IN IF Serialisable(final_transcription)
             THEN /\ Record(r, "post_process", TRUE)
                  /\ Return(r, SuccessResponse(final_transcription))
                  /\ UNCHANGED log
             ELSE /\ Record(r, "jsonify", FALSE)
                  /\ UnhandledError(r, "not JSON serializable")
     ELSE /\ LogLine(r,
            "ASR model returned an empty, invalid, or unexpected transcription object.",
            "")
          /\ Record(r, "empty_result", TRUE)
          /\ Return(r, ErrorResponse(500, "Transcription failed. No text returned."))
  /\ UNCHANGED << asr_model, hashseed, debug, disk, creator, request, tmp_name,
                  temp_input_file, processed_file_path, transcription_list,
                  response, tvars >>

\* lines 129-130: os.remove raises when the file cannot be removed; the
\* exception leaves the view function and the framework answers
CleanupInput(r) ==
  /\ pc[r] = "l129"
  /\ IF temp_input_file[r] # 0 /\ temp_input_file[r] \in disk
     THEN \/ /\ disk' = disk \ { temp_input_file[r] }
             /\ Record(r, "remove_input", TRUE)
             /\ Goto(r, "l131")
             /\ UNCHANGED << response, log >>
          \/ \E e \in ExcTexts :
               /\ Record(r, "remove_input", FALSE)
               /\ Escape(r, e)
               /\ UNCHANGED disk
     ELSE /\ Goto(r, "l131")
          /\ UNCHANGED << disk, trace, response, log >>
  /\ UNCHANGED << asr_model, hashseed, debug, creator, request, tmp_name,
                  temp_input_file, processed_file_path, transcription_list,
                  result, tvars >>

\* lines 131-132, then the pending return value is sent
CleanupOutput(r) ==
  /\ pc[r] = "l131"
  /\ IF processed_file_path[r] # 0 /\ processed_file_path[r] \in disk
     THEN \/ /\ disk' = disk \ { processed_file_path[r] }
             /\ Record(r, "remove_output", TRUE)
             /\ response' = [ response EXCEPT ![r] = result[r] ]
             /\ Goto(r, "done")
             /\ UNCHANGED log
          \/ \E e \in ExcTexts :
               /\ Record(r, "remove_output", FALSE)
               /\ Escape(r, e)
               /\ UNCHANGED disk
     ELSE /\ response' = [ response EXCEPT ![r] = result[r] ]
          /\ Goto(r, "done")
          /\ UNCHANGED << disk, trace, log >>
  /\ UNCHANGED << asr_model, hashseed, debug, creator, request, tmp_name,
                  temp_input_file, processed_file_path, transcription_list,
                  result, tvars >>

Init ==
  /\ asr_model \in { "loaded", "None" }
  /\ hashseed \in HashSeeds
  /\ debug \in BOOLEAN
  /\ InitPipeline
  /\ InitTextIdle

Next ==
  \E r \in Reqs :
    \/ Receive(r)
    \/ CheckModel(r)
    \/ CheckField(r)
    \/ CheckFilename(r)
    \/ CreateInput(r)
    \/ SaveUpload(r)
    \/ DecodeAudio(r)
    \/ CreateOutput(r)
    \/ ExportAudio(r)
    \/ Transcribe(r)
    \/ CheckResult(r)
    \/ CleanupInput(r)
    \/ CleanupOutput(r)

Spec ==
  Init /\ [][Next]_vars

\* ---------------------------------------------------------------------
\* Several requests handled at the same time, each by its own worker
\* (threads of the development server, or processes of a WSGI server
\* with the temporary directory in common)
\* ---------------------------------------------------------------------
\* the data of the concurrent requests: one valid and one invalid
\* upload, one exception text, an empty result and one with a text
Focus(r) ==
  /\ request[r] \in
       { NoRequest,
         [ has_audio |-> FALSE, filename |-> "", payload |-> "none" ],
         [ has_audio |-> TRUE, filename |-> "clip.wav", payload |-> "audio" ] }
  /\ \A n \in 1..Len(log[r]) : log[r][n].detail # "e2"
  /\ transcription_list[r] \in
       { NoList, [ shape |-> "empty", text |-> Absent ],
         [ shape |-> "hypothesis", text |-> Str(<< >>) ] }

InitConc ==
  /\ asr_model = "loaded"
  /\ hashseed = "fwd"
  /\ debug = TRUE
  /\ InitPipeline
  /\ InitTextIdle

\* a step of the worker that runs transcribe() for request r
Handle(r) ==
  \/ CheckModel(r)
  \/ CheckField(r)
  \/ CheckFilename(r)
  \/ CreateInput(r) /\ Focus(r)'
  \/ SaveUpload(r) /\ Focus(r)'
  \/ DecodeAudio(r) /\ Focus(r)'
  \/ CreateOutput(r) /\ Focus(r)'
  \/ ExportAudio(r) /\ Focus(r)'
  \/ Transcribe(r) /\ Focus(r)'
  \/ CheckResult(r)
  \/ CleanupInput(r) /\ Focus(r)'
  \/ CleanupOutput(r) /\ Focus(r)'

NextConc ==
  \E r \in Workers :
    \/ Receive(r) /\ Focus(r)'
    \/ Handle(r)

SpecConc ==
  InitConc /\ [][NextConc]_vars

\* ---------------------------------------------------------------------
\* The handler runs on: the worker of a request that has arrived keeps
\* being scheduled, and every call it makes returns or raises. No
\* request has to arrive.
\* ---------------------------------------------------------------------
NextFair ==
  \E r \in Reqs :
    \/ Receive(r) /\ Focus(r)'
    \/ Handle(r)

InitFair ==
  /\ asr_model \in { "loaded", "None" }
  /\ hashseed = "fwd"
  /\ debug \in BOOLEAN
  /\ InitPipeline
  /\ InitTextIdle

SpecFair ==
  /\ InitFair
  /\ [][NextFair]_vars
  /\ \A r \in Reqs : WF_vars(Handle(r))

\* ---------------------------------------------------------------------
\* post_process_kabyle_text applied to bounded inputs
\* ---------------------------------------------------------------------
\* the characters of the exhaustive family of inputs
InputAlphabet ==
  { "a", "k", "A", "I", "C", " ", "tab", "-" }

\* every text of at most MaxLen characters
ShortTexts ==
  UNION { [ 1..n -> InputAlphabet ] : n \in 0..MaxLen }

Stems ==
  { << "a", "x", "x", "a", "m" >>, << "A", "k" >>, << "I", "I" >>,
    << "C", "_", "a" >> }

Gaps ==
  { << " " >>, << "tab" >>, << " ", " " >>, << "tab", " " >> }

\* a stem, whitespace and a particle, for every particle
Phrases ==
  { st \o g \o p : st \in Stems, g \in Gaps, p \in all_annexable_particles }

ChainWords ==
  { << "a", "a" >>, << "a", "k" >>, << "a" >>, << "x" >>, << "I" >> }

Separators ==
  { << " " >>, << "-" >>, << " ", "-" >> }

\* three words in a row
Chains ==
  { w1 \o s1 \o w2 \o s2 \o w3 :
      w1 \in ChainWords, s1 \in Separators, w2 \in ChainWords,
      s2 \in Separators, w3 \in ChainWords }

\* words that are particles, that begin with a particle, or neither
PairWords ==
  { << "a", "x", "x", "a", "m" >>, << "a", "q", "u", "r" >>,
    << "i", "n", "e", "s" >>, << "i", "n", "e", "s", "t" >>, << "a" >>,
    << "k", "k" >>, << "I" >>, << "A", "k" >> }

\* two words separated by whitespace
Pairs ==
  { w1 \o g \o w2 : w1 \in PairWords, g \in Gaps, w2 \in PairWords }

\* three words, the second beginning with a particle that is itself the
\* beginning of a longer particle
Overlaps ==
  { w1 \o << " " >> \o w2 \o << " " >> \o w3 :
      w1 \in { << "a", "a" >>, << "a", "x", "x", "a", "m" >> },
      w2 \in { << "a", "k", "k" >>, << "i", "n", "e", "s", "t" >>,
               << "i", "n", "e", "s" >> },
      w3 \in { << "a" >>, << "i" >>, << "x" >> } }

TextInputs ==
  { Str(s) : s \in ShortTexts \cup Phrases \cup Chains \cup Pairs
                     \cup Overlaps }
    \cup { NoneValue, ObjectValue }

InitText ==
  /\ asr_model = "loaded"
  /\ hashseed \in HashSeeds
  /\ debug = TRUE
  /\ InitPipeline
  /\ arg \in TextInputs
  /\ ret = Absent
  /\ ret2 = Absent
  /\ tpc = "call"

\* final_transcription = post_process_kabyle_text(raw_transcription)
Call ==
  /\ tpc = "call"
  /\ ret' = post_process_kabyle_text(arg, hashseed)
  /\ tpc' = "returned"
  /\ UNCHANGED << asr_model, hashseed, debug, pvars, arg, ret2 >>

\* the function applied to its own result
Recall ==
  /\ tpc = "returned"
  /\ ret2' = post_process_kabyle_text(ret, hashseed)
  /\ tpc' = "again"
  /\ UNCHANGED << asr_model, hashseed, debug, pvars, arg, ret >>

NextText ==
  \/ Call
  \/ Recall

SpecText ==
  InitText /\ [][NextText]_vars

\* ---------------------------------------------------------------------
\* Properties
\* ---------------------------------------------------------------------
\* the request performed op, which returned (ok) or raised (~ ok)
Did(r, op, ok) ==
  \E n \in 1..Len(trace[r]) : trace[r][n] = Event(op, ok)

\* some call of the request raised an exception
Raised(r) ==
  \E n \in 1..Len(trace[r]) : ~ trace[r][n].ok

\* the temporary files of request r that exist
FilesOf(r) ==
  { f \in disk : creator[f] = r }

\* the request got as far as creating a temporary file or calling pydub or
\* the model
Acquired(r) ==
  \E n \in 1..Len(trace[r]) :
    trace[r][n].op \in { "create_input", "save", "from_file", "create_output",
                         "export", "transcribe", "post_process" }

\* os.remove raised during the cleanup of the request
ReleaseFailed(r) ==
  Did(r, "remove_input", FALSE) \/ Did(r, "remove_output", FALSE)

\* C1: when a request has completed, whichever stage failed (storing,
\* decoding, exporting, transcription, malformed result, unhandled
\* exception), none of the temporary files it created is still on disk.
\* Runs in which os.remove itself raised are left to C3.
C1_NoTempFileLeft ==
  \A r \in Reqs :
    ( pc[r] = "done" /\ ~ ReleaseFailed(r) ) => FilesOf(r) = {}

\* C3: a failure of os.remove during cleanup does not change the outcome:
\* the response is the one the return statement determined.
C3_ReleaseFailureNotSurfaced ==
  \A r \in Reqs :
    ( pc[r] = "done" /\ ReleaseFailed(r) ) => response[r] = result[r]

\* the result of the model carries no usable text
Unusable(tl) ==
  \/ tl.shape \in { "empty", "falsy", "no_text" }
  \/ tl.shape = "hypothesis" /\ ~ isinstance_str(tl.text)

\* C4: when transcribe returned a result without usable text, the request
\* ends in the EmptyResult failure (status 500), and every 200 response
\* carries a string transcription.
C4_UnusableTextIsEmptyResult ==
  \A r \in Reqs :
    /\ ( /\ pc[r] \in { "l129", "l131", "done" }
         /\ Did(r, "transcribe", TRUE)
         /\ Unusable(transcription_list[r]) )
       => result[r] =
            ErrorResponse(500, "Transcription failed. No text returned.")
    /\ response[r].status = 200 => isinstance_str(response[r].transcription)

\* C5: with the model loaded, a request whose payload is empty, even with
\* a filename, fails with status 400 before any temporary file is created.
C5_EmptyPayloadRejected ==
  \A r \in Reqs :
    ( /\ asr_model = "loaded"
      /\ request[r].has_audio
      /\ request[r].payload = "empty" )
    => /\ ~ Acquired(r)
       /\ pc[r] = "done" => response[r].status = 400

\* C6: with the model loaded, a request without the field 'audio' or with
\* an empty filename is answered with status 400 and a JSON error body; it
\* creates no temporary file and calls neither pydub nor the model.
C6_MissingFileRejected ==
  \A r \in Reqs :
    ( /\ asr_model = "loaded"
      /\ pc[r] # "idle"
      /\ ~ request[r].has_audio \/ request[r].filename = "" )
    => /\ ~ Acquired(r)
       /\ \A f \in Files : creator[f] # r
       /\ pc[r] = "done" =>
            /\ response[r].status = 400
            /\ response[r].kind = "error"
            /\ response[r].error \in
                 { "No audio file provided", "No selected file" }

\* a request with an empty filename has been answered with status 400
C6_Witness ==
  \E r \in Reqs :
    /\ asr_model = "loaded"
    /\ pc[r] = "done"
    /\ request[r].has_audio
    /\ request[r].filename = ""
    /\ response[r] = ErrorResponse(400, "No selected file")

\* C7: when the model failed to load, every request, whatever it carries,
\* is answered with status 503 before any validation of the input, any
\* temporary file and any external call.
C7_ModelUnavailable ==
  \A r \in Reqs :
    asr_model = "None"
    => /\ trace[r] = << >>
       /\ \A f \in Files : creator[f] # r
       /\ pc[r] = "done" =>
            response[r] = ErrorResponse(503, "ASR model is not loaded.")

\* a valid request has been answered with status 503
C7_Witness ==
  \E r \in Reqs :
    /\ asr_model = "None"
    /\ pc[r] = "done"
    /\ request[r].has_audio
    /\ request[r].filename # ""
    /\ request[r].payload = "audio"
    /\ response[r].status = 503

\* C8: a 200 response is given only if the model is loaded, the input is
\* valid and storing, normalization and transcription succeeded, and its
\* transcription is post_process_kabyle_text of the text of the first
\* result; when any call of the handler raised, the response has status
\* 500 and carries no transcription (the JSON error body of the handler,
\* or the framework's error page when os.remove raised).
C8_SuccessOnlyAfterAllStages ==
  \A r \in Reqs :
    pc[r] = "done" =>
      /\ response[r].status = 200 =>
           /\ asr_model = "loaded"
           /\ request[r].has_audio
           /\ request[r].filename # ""
           /\ Did(r, "save", TRUE)
           /\ Did(r, "from_file", TRUE)
           /\ Did(r, "export", TRUE)
           /\ Did(r, "transcribe", TRUE)
           /\ ~ Raised(r)
           /\ HasText(transcription_list[r])
           /\ response[r].kind = "transcription"
           /\ response[r].transcription =
                post_process_kabyle_text(transcription_list[r].text, hashseed)
      /\ Raised(r) =>
           /\ response[r].status = 500
           /\ response[r].kind # "transcription"
           /\ ~ ReleaseFailed(r) => response[r].kind = "error"

\* a 200 response whose transcription is the corrected raw text
C8_Witness ==
  \E r \in Reqs :
    /\ pc[r] = "done"
    /\ response[r].status = 200
    /\ transcription_list[r].text = Str(<< "a", "a", " ", "a" >>)
    /\ response[r].transcription = Str(<< "a", "a", "-", "a" >>)

\* post_process_kabyle_text has returned a str
Returned ==
  tpc \in { "returned", "again" } /\ isinstance_str(ret)

\* C2: post_process_kabyle_text is idempotent: applied to its own result
\* it returns that result, also when several particles follow one another.
C2_Idempotent ==
  tpc = "again" => ret2 = ret

\* t has the character c twice in a row
Doubled(t, c) ==
  \E n \in 1..(Len(t) - 1) : t[n] = c /\ t[n + 1] = c

\* C9: the result has no two consecutive spaces, no two consecutive
\* hyphens and no leading or trailing whitespace.
C9_Collapsed ==
  Returned =>
    /\ ~ Doubled(ret.chars, " ")
    /\ ~ Doubled(ret.chars, "-")
    /\ ret.chars # << >> =>
         /\ ~ isSpace(ret.chars[1])
         /\ ~ isSpace(ret.chars[Len(ret.chars)])

\* a text with leading spaces and two hyphens has been cleaned
C9_Witness ==
  /\ Returned
  /\ arg = Str(<< " ", " ", "-", "-" >>)
  /\ ret = Str(<< "-" >>)

\* the parts of a text made of a stem, whitespace and a rest
StemOf(s) ==
  SubSeq(s, 1, WordRun(s, 1))

GapLen(s) ==
  SpaceRun(s, WordRun(s, 1) + 1)

RestOf(s) ==
  SubSeq(s, WordRun(s, 1) + GapLen(s) + 1, Len(s))

\* s is a stem of two or more word characters, one or more whitespace
\* characters and a particle
StemGapParticle(s) ==
  /\ WordRun(s, 1) >= 2
  /\ GapLen(s) >= 1
  /\ RestOf(s) \in all_annexable_particles

AllWord(t) ==
  \A n \in 1..Len(t) : isWord(t[n])

\* C10 as stated: for every stem of two or more word characters and every
\* particle p, the result for stem + whitespace + p is the lower-cased
\* stem, one hyphen and p.
C10_AnnexedAlways ==
  ( Returned /\ StemGapParticle(arg.chars) )
  => ret = Str(lower(StemOf(arg.chars)) \o << "-" >> \o RestOf(arg.chars))

\* C10 amended: the same, for every stem whose lower-cased form consists
\* of word characters only.
C10_Annexed ==
  ( /\ Returned
    /\ StemGapParticle(arg.chars)
    /\ AllWord(lower(StemOf(arg.chars))) )
  => ret = Str(lower(StemOf(arg.chars)) \o << "-" >> \o RestOf(arg.chars))

\* "axxam ines" has become "axxam-ines"
C10_Witness ==
  /\ Returned
  /\ arg = Str(<< "a", "x", "x", "a", "m", " ", "i", "n", "e", "s" >>)
  /\ ret = Str(<< "a", "x", "x", "a", "m", "-", "i", "n", "e", "s" >>)

\* s is two words of word characters separated by whitespace
TwoWords(s) ==
  /\ WordRun(s, 1) >= 1
  /\ GapLen(s) >= 1
  /\ RestOf(s) # << >>
  /\ AllWord(RestOf(s))

\* the two words lower-cased and joined by one space
SpaceJoined(s) ==
  Str(lower(StemOf(s)) \o << " " >> \o lower(RestOf(s)))

\* C11 as stated: for two words w1, w2 where the lower-cased w2 is not a
\* particle, or where w1 has fewer than two characters, no hyphen is
\* inserted: the result is lower(w1), one space, lower(w2).
C11_NotAnnexedAlways ==
  ( /\ Returned
    /\ TwoWords(arg.chars)
    /\ \/ lower(RestOf(arg.chars)) \notin all_annexable_particles
       \/ Len(StemOf(arg.chars)) < 2 )
  => ret = SpaceJoined(arg.chars)

\* C11 amended: the same, where "the lower-cased w2 is not a particle"
\* is restricted to a w2 whose lower-cased form consists of word
\* characters only.
C11_NotAnnexed ==
  ( /\ Returned
    /\ TwoWords(arg.chars)
    /\ \/ /\ lower(RestOf(arg.chars)) \notin all_annexable_particles
          /\ AllWord(lower(RestOf(arg.chars)))
       \/ Len(StemOf(arg.chars)) < 2 )
  => ret = SpaceJoined(arg.chars)

\* "axxam inest", whose second word begins with the particle "ines",
\* is returned with its space
C11_Witness ==
  /\ Returned
  /\ arg = Str(<< "a", "x", "x", "a", "m", " ", "i", "n", "e", "s", "t" >>)
  /\ ret = arg

\* the call has returned, whatever the value
Called ==
  tpc \in { "returned", "again" }

\* C12 as stated: for every string the result contains no upper-case
\* character, and a non-text input is returned unchanged.
C12_NoUpperCaseAlways ==
  /\ Returned => \A i \in 1..Len(ret.chars) : ~ isUpper(ret.chars[i])
  /\ (Called /\ ~ isinstance_str(arg)) => ret = arg

\* C12 amended: for every string the result is its own lower-cased form
\* (no character of it is changed by lower-casing), and a non-text
\* input is returned unchanged.
C12_LowerCased ==
  /\ (Returned /\ isinstance_str(arg)) => lower(ret.chars) = ret.chars
  /\ (Called /\ ~ isinstance_str(arg)) => ret = arg

\* "Ak" has been returned as "ak"
C12_Witness ==
  /\ Returned
  /\ arg = Str(<< "A", "k" >>)
  /\ ret = Str(<< "a", "k" >>)

\* the place of an operation in the order store (4, 5), normalize
\* (6, 7, 8), transcribe (9), correct (10), then the cleanup
StageRank(op) ==
  CASE op = "check_model" -> 1
    [] op = "check_field" -> 2
    [] op = "check_filename" -> 3
    [] op = "create_input" -> 4
    [] op = "save" -> 5
    [] op = "from_file" -> 6
    [] op = "create_output" -> 7
    [] op = "export" -> 8
    [] op = "transcribe" -> 9
    [] op \in { "post_process", "jsonify", "empty_result" } -> 10
    [] op = "remove_input" -> 11
    [] op = "remove_output" -> 12

\* the corrector was applied to the text of the model's result
Corrected(r) ==
  Did(r, "post_process", TRUE) \/ Did(r, "jsonify", FALSE)

\* the operations of the request are in the order of the stages, none
\* twice, and none that is not cleanup comes after one that raised
C13_InOrderOnce ==
  \A r \in Reqs :
    \A m, n \in 1..Len(trace[r]) :
      m < n =>
        /\ StageRank(trace[r][m].op) < StageRank(trace[r][n].op)
        /\ StageRank(trace[r][n].op) <= 10 => trace[r][m].ok

\* C13: the stages of a request run in the order store, normalize,
\* transcribe, correct, each at most once and only when every earlier one
\* succeeded; the model is called only after the export of the normalized
\* file, the corrector is applied only to a usable result of the model,
\* and after a failure no stage runs.
C13_StagesInOrder ==
  /\ C13_InOrderOnce
  /\ \A r \in Reqs :
       /\ ( Did(r, "transcribe", TRUE) \/ Did(r, "transcribe", FALSE) )
            => ( Did(r, "export", TRUE) /\ processed_file_path[r] # 0 )
       /\ Corrected(r)
            => ( Did(r, "transcribe", TRUE)
                 /\ ~ Unusable(transcription_list[r]) )

\* the operation whose exception decided the outcome of the request: the
\* last one that raised
FailedAt(r) ==
  LET n == CHOOSE k \in 1..Len(trace[r]) :
             /\ ~ trace[r][k].ok
             /\ \A j \in (k + 1)..Len(trace[r]) : trace[r][j].ok
  IN trace[r][n].op

\* the fixed answer of each category of failure
GenericAnswer(op) ==
  CASE op \in { "from_file", "create_output", "export" } ->
         ErrorResponse(500,
           "Failed to process audio file. Please ensure it's a valid audio format.")
    [] op = "transcribe" ->
         ErrorResponse(500, "Transcription failed due to a model error.")
    [] op \in { "create_input", "save", "jsonify" } ->
         ErrorResponse(500, "An internal server error occurred.")
    [] op \in { "remove_input", "remove_output" } ->
         FrameworkError(FALSE, "")

\* C14: the answer to a request that failed with an exception depends
\* only on where it failed, never on the text of the exception: it is the
\* fixed answer of that category, and the text of the exception is in
\* the log only.
C14_GenericErrorBody ==
  \A r \in Reqs :
    ( pc[r] = "done" /\ Raised(r) ) =>
      /\ response[r] = GenericAnswer(FailedAt(r))
      /\ response[r].error \notin ExcTexts
      /\ \E n \in 1..Len(log[r]) : log[r][n].detail \in ExcTexts
                                     \/ FailedAt(r) = "jsonify"

\* the file is on disk and was created by worker r
Own(r, f) ==
  f \in disk /\ creator[f] = r

\* C15: in every interleaving of concurrent requests, the file a request
\* is about to write, to pass to the decoder or to the model, or to
\* remove, is a file that this request created.
C15_OwnFilesOnly ==
  \A r \in Workers :
    /\ pc[r] \in { "l93", "l102" } => Own(r, tmp_name[r])
    /\ pc[r] \in { "l98", "l101", "l102", "l110", "l115" }
         => Own(r, temp_input_file[r])
    /\ pc[r] \in { "l110", "l115" } => Own(r, processed_file_path[r])
    /\ ( pc[r] = "l129" /\ temp_input_file[r] \in disk )
         => creator[temp_input_file[r]] = r
    /\ ( pc[r] \in { "l129", "l131" } /\ processed_file_path[r] \in disk )
         => creator[processed_file_path[r]] = r

\* two requests are in flight, each with a file of its own: one is about
\* to decode its upload, the other about to remove its own
C15_Witness ==
  \E r1, r2 \in Workers :
    /\ r1 # r2
    /\ pc[r1] = "l98"
    /\ pc[r2] = "l129"
    /\ Own(r1, temp_input_file[r1])
    /\ Own(r2, temp_input_file[r2])

\* t has no occurrence of the pattern: a word of two or more word
\* characters, whitespace, a particle as a complete word
NoPattern(t) ==
  \A i \in 1..Len(t) : MatchAt(t, i, sorted_all_annexable(hashseed)) = << >>

\* C16: when the result of post_process_kabyle_text has no occurrence of
\* the pattern left, a second application returns the same text.
C16_StableWithoutPattern ==
  ( tpc = "again" /\ isinstance_str(ret) /\ NoPattern(ret.chars) )
    => ret2 = ret

\* "Ak a" became "ak-a", which has no pattern left and is returned as it
\* is by the second application
C16_Witness ==
  /\ tpc = "again"
  /\ arg = Str(<< "A", "k", " ", "a" >>)
  /\ ret = Str(<< "a", "k", "-", "a" >>)
  /\ NoPattern(ret.chars)
  /\ ret2 = ret

\* C17: every request that has arrived eventually has a response and its
\* handler has stopped; a response once sent is never replaced by another,
\* and a handler that has stopped does nothing more.
C17_ExactlyOneResponse ==
  /\ \A r \in Reqs :
       ( pc[r] = "l78" ) ~> ( pc[r] = "done" /\ response[r] # NoResponse )
  /\ [][ \A r \in Reqs :
           /\ response[r] # NoResponse => response'[r] = response[r]
           /\ pc[r] = "done" =>
                ( pc'[r] = "done" /\ trace'[r] = trace[r]
                  /\ log'[r] = log[r] ) ]_vars

\* a request has its response after an exception of the model and the
\* removal of its two files
C17_Witness ==
  \E r \in Reqs :
    /\ pc[r] = "done"
    /\ Did(r, "transcribe", FALSE)
    /\ Did(r, "remove_output", TRUE)
    /\ response[r] = ErrorResponse(500, "Transcription failed due to a model error.")

\* orders of the alternatives: the two the sort of a set can give, and
\* two that are not sorted by length
Orderings ==
  { SortedFwd, SortedRev, ListedFwd, ListedRev }

\* C18: the result does not depend on the order of the particles in the
\* alternation: every ordering gives the text that was returned.
C18_OrderNotObservable ==
  ( Returned /\ isinstance_str(arg) /\ arg.chars # << >> ) =>
    \A alts \in Orderings : Str(correct_with(arg.chars, alts)) = ret

\* "aa akk a", where the particles "a" and "ak" both begin the second
\* word, has been corrected to "aa akk-a"
C18_Witness ==
  /\ Returned
  /\ arg = Str(<< "a", "a", " ", "a", "k", "k", " ", "a" >>)
  /\ ret = Str(<< "a", "a", " ", "a", "k", "k", "-", "a" >>)
  /\ { << "a" >>, << "a", "k" >> } \subseteq all_annexable_particles

\* the characters of t that are neither whitespace nor hyphen, in order
Kept(t) ==
  LET Keep(c) == ~ isSpace(c) /\ c # "-" IN SelectSeq(t, Keep)

\* C19: the characters of the result that are neither whitespace nor
\* hyphen are those of the lower-cased input, in the same order.
C19_OnlyCaseSpaceHyphen ==
  ( Returned /\ isinstance_str(arg) ) =>
    Kept(ret.chars) = Kept(lower(arg.chars))

\* "Ak<tab>a" has been corrected to "ak-a": case, whitespace and a hyphen
\* changed, the letters did not
C19_Witness ==
  /\ Returned
  /\ arg = Str(<< "A", "k", "tab", "a" >>)
  /\ ret = Str(<< "a", "k", "-", "a" >>)
  /\ Kept(ret.chars) = << "a", "k", "a" >>
====
